---- MODULE Spec2Model ----
(***************************************************************************)
(* A model of src/c/mph.c: the read side of a chunked minimal perfect hash *)
(* function (loader, vertex-offset decoding, edge-triple derivation, rank  *)
(* over a packed 2-bit label array, and the two evaluate entry points).    *)
(*                                                                         *)
(* A uint64_t is a sequence of 64 bits, least significant first, so that   *)
(* every shift, mask, product and wrap-around of the C code is computed at *)
(* its true width.  A C int is a TLA+ integer in -2^31 .. 2^31-1.          *)
(***************************************************************************)
EXTENDS Integers, Sequences, FiniteSets, TLC

\* ------------------------------------------------------------------------
\* 64-bit unsigned arithmetic
\* ------------------------------------------------------------------------

\* Width of uint64_t.
WordBits == 64

\* Number of 2-bit labels one uint64_t holds (start / 32, start % 32).
PairsPerWord == 32

\* INT_MAX, the largest value of a C int.
IntMax == 2147483647

BitAt(x, i) == x[i + 1]

\* The sequence f as a tuple of its elements, each computed once.
Eval(f) == f \o <<>>

Zero64 == Eval([i \in 1..WordBits |-> 0])

AllOnes64 == Eval([i \in 1..WordBits |-> 1])

\* The uint64_t whose value is n, for 0 <= n <= INT_MAX.
FromNat(n) == Eval([i \in 1..WordBits |-> IF i <= 31 THEN (n \div 2^(i - 1)) % 2 ELSE 0])

\* Whether x < 2^31, so that its value is a TLA+ integer TLC can hold.
Fits31(x) == \A i \in 32..Len(x) : x[i] = 0

\* Byte k (from 0) of x as an integer in 0..255.
Limb(x, k) ==
    x[8 * k + 1] + 2 * x[8 * k + 2] + 4 * x[8 * k + 3] + 8 * x[8 * k + 4]
    + 16 * x[8 * k + 5] + 32 * x[8 * k + 6] + 64 * x[8 * k + 7] + 128 * x[8 * k + 8]

\* The bits of a sequence of bytes (byte k at l[k + 1]), least significant first.
PowersOfTwo == <<1, 2, 4, 8, 16, 32, 64, 128>>

FromLimbs(l) ==
    Eval([i \in 1..(8 * Len(l)) |-> (l[((i - 1) \div 8) + 1] \div PowersOfTwo[((i - 1) % 8) + 1]) % 2])

\* The value of the low 31 bits of x.
Low31(x) == Limb(x, 0) + 256 * Limb(x, 1) + 65536 * Limb(x, 2) + 16777216 * (Limb(x, 3) % 128)

\* The value of x, for x < 2^31.
ToNat(x) == Low31(x)

\* (int) x: the low 32 bits of x read as a two's complement int.
ToInt(x) == IF x[32] = 0 THEN Low31(x) ELSE (Low31(x) - IntMax) - 1

\* (uint64_t) n for a C int n: sign extension.
FromInt(n) ==
    IF n >= 0 THEN FromNat(n)
    ELSE LET m == FromNat((-n) - 1) IN Eval([i \in 1..WordBits |-> 1 - m[i]])

And(x, y) == Eval([i \in 1..Len(x) |-> x[i] * y[i]])

Or(x, y) == Eval([i \in 1..Len(x) |-> IF x[i] + y[i] > 0 THEN 1 ELSE 0])

Xor(x, y) == Eval([i \in 1..Len(x) |-> (x[i] + y[i]) % 2])

Not(x) == Eval([i \in 1..Len(x) |-> 1 - x[i]])

\* x >> n and x << n for 0 <= n < width (a larger count is undefined in C).
Shr(x, n) == Eval([i \in 1..Len(x) |-> IF i + n <= Len(x) THEN x[i + n] ELSE 0])

Shl(x, n) == Eval([i \in 1..Len(x) |-> IF i - n >= 1 THEN x[i - n] ELSE 0])

RECURSIVE AddLimbs(_, _, _, _, _)
AddLimbs(x, y, k, c, acc) ==
    IF k > 7 THEN acc
    ELSE LET s == Limb(x, k) + Limb(y, k) + c
         IN AddLimbs(x, y, k + 1, s \div 256, Append(acc, s % 256))

\* x + y modulo 2^width.
Add(x, y) == FromLimbs(AddLimbs(x, y, 0, 0, <<>>))

\* x - y modulo 2^width.
Sub(x, y) == FromLimbs(AddLimbs(x, Not(y), 0, 1, <<>>))

\* x < y as unsigned numbers.
Less(x, y) ==
    LET d == {i \in 1..Len(x) : x[i] # y[i]}
    IN d # {} /\ y[CHOOSE i \in d : \A j \in d : j <= i] = 1

LessEq(x, y) == x = y \/ Less(x, y)

\* The eight bytes of x, least significant first.
Limbs(x) ==
    <<Limb(x, 0), Limb(x, 1), Limb(x, 2), Limb(x, 3), Limb(x, 4), Limb(x, 5), Limb(x, 6), Limb(x, 7)>>

\* Column k of the schoolbook product of two sequences of eight bytes.
RECURSIVE Column(_, _, _, _)
Column(xs, ys, k, i) ==
    IF i > 7 \/ i > k THEN 0
    ELSE (IF k - i <= 7 THEN xs[i + 1] * ys[k - i + 1] ELSE 0) + Column(xs, ys, k, i + 1)

RECURSIVE MulLimbs(_, _, _, _, _)
MulLimbs(xs, ys, k, c, acc) ==
    IF k > 15 THEN acc
    ELSE LET s == Column(xs, ys, k, 0) + c
         IN MulLimbs(xs, ys, k + 1, s \div 256, Append(acc, s % 256))

\* The exact 128-bit product of two uint64_t.
MulWide(x, y) == FromLimbs(MulLimbs(Limbs(x), Limbs(y), 0, 0, <<>>))

\* x * y as C computes it on uint64_t: the low 64 bits of the product.
Mul(x, y) == SubSeq(MulWide(x, y), 1, WordBits)

\* Whether the exact product of x and y needs more than 64 bits.
MulOverflows(x, y) == SubSeq(MulWide(x, y), WordBits + 1, 2 * WordBits) # Zero64

\* __builtin_popcountll
Popcount(x) == Cardinality({i \in 1..WordBits : x[i] = 1})

\* __builtin_clzll.  It is undefined on 0, on which the code never calls it
\* (evaluate returns before); 64 stands for that case.
Clz(x) ==
    IF x = Zero64 THEN WordBits
    ELSE WordBits - (CHOOSE i \in 1..WordBits : x[i] = 1 /\ \A j \in (i + 1)..WordBits : x[j] = 0)

\* ------------------------------------------------------------------------
\* State
\* ------------------------------------------------------------------------

VARIABLES
    args,    \* the arguments of the calls under way (for load_mph, the file behind h)
    out,     \* the values the calls have returned so far, in order
    mph,     \* the mph structure: size, chunk_shift, global_seed, the two arrays and their lengths
    ub,      \* how this build and process resolve the code's undefined behaviour
    keys,    \* the keys callers pass to evaluate, each as four words of key material
    pc,      \* per caller: the place its evaluate call has reached
    frame,   \* per caller: the automatic variables of its evaluate call
    stream,  \* the bytes the file descriptor still has to deliver
    loaded   \* what load_mph returned: "none" until it has, then "mph"

vars == <<args, out, mph, ub, keys, pc, frame, stream, loaded>>

\* ------------------------------------------------------------------------
\* Memory
\* ------------------------------------------------------------------------

\* array[i] for a C int i.  Inside the array it is the word stored there.
\* Outside, the read is undefined behaviour: it yields whatever the process
\* holds at that address (ub.word, by the parity of the index), or the read
\* faults when the address is not mapped (ub.mapped, see Faults).
InBounds(array, i) == i >= 0 /\ i < Len(array)

Deref(array, i) == IF InBounds(array, i) THEN array[i + 1] ELSE ub.word[(i % 2) + 1]

\* The index of a read at a uint64_t index: itself below 2^31, and some index
\* outside every array of the model otherwise.
Index64(x) == IF Fits31(x) THEN ToNat(x) ELSE IntMax

Faults(array, reads) == ~ub.mapped /\ \E i \in reads : ~InBounds(array, i)

\* ------------------------------------------------------------------------
\* Rank over the packed label array (word b of a C array is array[b + 1])
\* ------------------------------------------------------------------------

\* 0x5555555555555555
EvenBits == Eval([i \in 1..WordBits |-> i % 2])

\* The fold without x >> 1: only the low bit of each pair is counted.
LowBitsOnly(x) == Popcount(And(x, EvenBits))

_count_nonzero_pairs(x) == Popcount(And(Or(x, Shr(x, 1)), EvenBits))

\* (UINT64_C(1) << n) - 1
LowMask(n) == Sub(Shl(FromNat(1), n), FromNat(1))

RECURSIVE WholeBlocks(_, _, _)
WholeBlocks(array, block, end_block) ==
    IF block < end_block
    THEN _count_nonzero_pairs(Deref(array, block)) + WholeBlocks(array, block + 1, end_block)
    ELSE 0

\* count_nonzero_pairs without the shift of the first word by start_offset * 2
\* when the range leaves that word: the labels before start are counted too.
UnshiftedFirstWord(start, end, array) ==
    LET block == ToInt(Shr(start, 5))
        end_block == ToInt(Shr(end, 5))
        start_offset == ToInt(And(start, FromNat(PairsPerWord - 1)))
        end_offset == ToInt(And(end, FromNat(PairsPerWord - 1)))
    IN  IF block = end_block
        THEN _count_nonzero_pairs(Shr(And(Deref(array, block), LowMask(end_offset * 2)), start_offset * 2))
        ELSE WholeBlocks(array, block, end_block)
             + (IF end_offset # 0
                THEN _count_nonzero_pairs(And(Deref(array, end_block), LowMask(end_offset * 2)))
                ELSE 0)

\* count_nonzero_pairs(start, end, array), start and end uint64_t; the sum is
\* returned as an integer (it is at most 32 per word read).
count_nonzero_pairs(start, end, array) ==
    LET block == ToInt(Shr(start, 5))
        end_block == ToInt(Shr(end, 5))
        start_offset == ToInt(And(start, FromNat(PairsPerWord - 1)))
        end_offset == ToInt(And(end, FromNat(PairsPerWord - 1)))
    IN  IF block = end_block
        THEN _count_nonzero_pairs(Shr(And(Deref(array, block), LowMask(end_offset * 2)), start_offset * 2))
        ELSE LET first == IF start_offset # 0
                          THEN _count_nonzero_pairs(Shr(Deref(array, block), start_offset * 2))
                          ELSE 0
                 from == IF start_offset # 0 THEN block + 1 ELSE block
                 at == IF from < end_block THEN end_block ELSE from
                 last == IF end_offset # 0
                         THEN _count_nonzero_pairs(And(Deref(array, at), LowMask(end_offset * 2)))
                         ELSE 0
             IN first + WholeBlocks(array, from, end_block) + last

\* The indices at which count_nonzero_pairs(start, end, array) reads array.
RankReads(start, end) ==
    LET block == ToInt(Shr(start, 5))
        end_block == ToInt(Shr(end, 5))
        start_offset == ToInt(And(start, FromNat(PairsPerWord - 1)))
        end_offset == ToInt(And(end, FromNat(PairsPerWord - 1)))
        from == IF start_offset # 0 THEN block + 1 ELSE block
        at == IF from < end_block THEN end_block ELSE from
    IN  IF block = end_block THEN {block}
        ELSE (IF start_offset # 0 THEN {block} ELSE {})
             \cup from..(end_block - 1)
             \cup (IF end_offset # 0 THEN {at} ELSE {})

\* get_2bit_value: pos *= 2; return array[pos / 64] >> pos % 64 & 3;
get_2bit_value(array, pos) ==
    LET pos2 == Shl(pos, 1)
        w == Deref(array, Index64(Shr(pos2, 6)))
        s == ToInt(And(pos2, FromNat(WordBits - 1)))
    IN  BitAt(w, s) + 2 * BitAt(w, s + 1)

\* The index at which get_2bit_value(array, pos) reads array.
LabelRead(pos) == Index64(Shr(Shl(pos, 1), 6))

\* The labels of [start, end) that get_2bit_value reads as non-zero.
NonzeroLabels(array, start, end) ==
    {p \in start..(end - 1) : get_2bit_value(array, FromNat(p)) # 0}

\* ------------------------------------------------------------------------
\* Vertex offsets and edge triples
\* ------------------------------------------------------------------------

\* UINT64_C(-1) >> 8
OFFSET_MASK == Shr(AllOnes64, 8)

\* (int)(floor((1.09 + 0.01) * 256))
C_TIMES_256 == 281

vertex_offset(edge_offset_seed) ==
    Shr(Mul(And(edge_offset_seed, OFFSET_MASK), FromInt(C_TIMES_256)), 8)

\* spooky_short_rehash is declared in spooky.h and defined outside this
\* file: a deterministic re-derivation of four words from four words and a
\* seed.  Here word i is xored with the seed moved down by 8 * i bits.
spooky_short_rehash(triple, seed) == Eval([i \in 1..4 |-> Xor(triple[i], Shr(seed, 8 * i))])

\* const int shift = __builtin_clzll(num_variables);
EquationShift(num_variables) == Clz(FromInt(num_variables))

\* const uint64_t mask = (UINT64_C(1) << shift) - 1;
EquationMask(num_variables) == LowMask(EquationShift(num_variables))

\* triple_to_equation without the mask: the whole word is multiplied.
UnmaskedEquation(triple, seed, num_variables) ==
    LET hash == spooky_short_rehash(triple, seed)
        shift == EquationShift(num_variables)
    IN  Eval([i \in 1..3 |-> ToInt(Shr(Mul(hash[i], FromInt(num_variables)), shift))])

\* triple_to_equation: the three ints it stores in e, for num_variables # 0.
triple_to_equation(triple, seed, num_variables) ==
    LET hash == spooky_short_rehash(triple, seed)
        shift == EquationShift(num_variables)
        mask == EquationMask(num_variables)
    IN  Eval([i \in 1..3 |-> ToInt(Shr(Mul(And(hash[i], mask), FromInt(num_variables)), shift))])

\* ------------------------------------------------------------------------
\* Evaluate: get_byte_array and get_uint64_t
\* ------------------------------------------------------------------------

\* spooky_short is declared in spooky.h and defined outside this file: a
\* deterministic map from the key's bytes and a seed to four words.  A key
\* is given here as four words of key material, xored with the seed.
spooky_short(key, seed) == Eval([i \in 1..4 |-> Xor(key[i], seed)])

\* x >> n for an int n.  A count outside 0..63 is undefined: the build
\* either uses the count modulo 64 or yields 0 (ub.wide).
ShrInt(x, n) ==
    IF n >= 0 /\ n < WordBits THEN Shr(x, n)
    ELSE IF ub.wide = "wrap" THEN Shr(x, n % WordBits) ELSE Zero64

\* The return value -1.
MinusOne == AllOnes64

\* Lookup with chunk_offset taken as the entry's offset field, unscaled.
UnscaledChunkOffset(m, h) ==
    LET chunk == ToInt(ShrInt(h[1], m.chunk_shift))
        edge_offset_seed == Deref(m.edge_offset_and_seed, chunk)
        chunk_offset == And(edge_offset_seed, OFFSET_MASK)
    IN  [chunk |-> chunk,
         edge_offset_seed |-> edge_offset_seed,
         chunk_offset |-> chunk_offset,
         num_variables |->
            ToInt(Sub(vertex_offset(Deref(m.edge_offset_and_seed, chunk + 1)), chunk_offset))]

\* Lines 69-72 and 82-85: the chunk of hash h and what the directory says
\* of it.
Lookup(m, h) ==
    LET chunk == ToInt(ShrInt(h[1], m.chunk_shift))
        edge_offset_seed == Deref(m.edge_offset_and_seed, chunk)
        chunk_offset == vertex_offset(edge_offset_seed)
    IN  [chunk |-> chunk,
         edge_offset_seed |-> edge_offset_seed,
         chunk_offset |-> chunk_offset,
         num_variables |->
            ToInt(Sub(vertex_offset(Deref(m.edge_offset_and_seed, chunk + 1)), chunk_offset))]

\* Resolve with the first vertex of the triple always taken as the selected
\* one, whatever the three labels sum to.
FirstVertexOnly(m, h, l) ==
    LET e == triple_to_equation(h, And(l.edge_offset_seed, Not(OFFSET_MASK)), l.num_variables)
        pos == Eval([i \in 1..3 |-> Add(FromInt(e[i]), l.chunk_offset)])
        end == Add(l.chunk_offset, FromInt(e[1]))
    IN  [e |-> e,
         end |-> end,
         reads |-> {LabelRead(pos[i]) : i \in 1..3} \cup RankReads(l.chunk_offset, end),
         result |-> Add(And(l.edge_offset_seed, OFFSET_MASK),
                        FromNat(count_nonzero_pairs(l.chunk_offset, end, m.array)))]

\* Lines 74-76 and 87-89, for num_variables # 0: the triple, the three
\* labels, the vertex they select and the value returned.
Resolve(m, h, l) ==
    LET e == triple_to_equation(h, And(l.edge_offset_seed, Not(OFFSET_MASK)), l.num_variables)
        pos == Eval([i \in 1..3 |-> Add(FromInt(e[i]), l.chunk_offset)])
        sum == get_2bit_value(m.array, pos[1]) + get_2bit_value(m.array, pos[2])
               + get_2bit_value(m.array, pos[3])
        end == Add(l.chunk_offset, FromInt(e[(sum % 3) + 1]))
    IN  [e |-> e,
         end |-> end,
         reads |-> {LabelRead(pos[i]) : i \in 1..3} \cup RankReads(l.chunk_offset, end),
         result |-> Add(And(l.edge_offset_seed, OFFSET_MASK),
                        FromNat(count_nonzero_pairs(l.chunk_offset, end, m.array)))]

\* The automatic variables of an evaluate call that has not started.
NoFrame ==
    [fn |-> "none", key |-> 0, h |-> <<>>, chunk |-> 0, edge_offset_seed |-> Zero64,
     chunk_offset |-> Zero64, num_variables |-> 0, e |-> <<>>,
     directory_reads |-> {}, array_reads |-> {}, result |-> Zero64]

\* A caller enters fn with key number k: line 68 or 81, the hash.
Enter(t, k, fn) ==
    /\ pc[t] = "idle"
    /\ pc' = [pc EXCEPT ![t] = "lookup"]
    /\ frame' = [frame EXCEPT ![t] =
                    [NoFrame EXCEPT !.fn = fn, !.key = k,
                                    !.h = spooky_short(keys[k], mph.global_seed)]]
    /\ UNCHANGED <<args, out, mph, ub, keys, stream, loaded>>

get_byte_array(t) == \E k \in 1..Len(keys) : Enter(t, k, "get_byte_array")

get_uint64_t(t) == \E k \in 1..Len(keys) : Enter(t, k, "get_uint64_t")

\* ReadDirectory with edge_offset_seed, chunk_offset and num_variables
\* declared static: one copy, which every caller's call reads and writes.
StaticLocals(t) ==
    /\ pc[t] = "lookup"
    /\ \E l \in {Lookup(mph, frame[t].h)} :
       LET reads == {l.chunk, l.chunk + 1}
       IN  IF Faults(mph.edge_offset_and_seed, reads)
           THEN /\ pc' = [pc EXCEPT ![t] = "fault"]
                /\ frame' = [frame EXCEPT ![t].chunk = l.chunk, ![t].directory_reads = reads]
           ELSE /\ pc' = [pc EXCEPT ![t] = IF l.num_variables = 0 THEN "return" ELSE "resolve"]
                /\ frame' = [u \in DOMAIN frame |->
                                [frame[u] EXCEPT
                                    !.chunk = IF u = t THEN l.chunk ELSE @,
                                    !.directory_reads = IF u = t THEN reads ELSE @,
                                    !.result = IF u = t THEN MinusOne ELSE @,
                                    !.edge_offset_seed = l.edge_offset_seed,
                                    !.chunk_offset = l.chunk_offset,
                                    !.num_variables = l.num_variables]]
    /\ UNCHANGED <<args, out, mph, ub, keys, stream, loaded>>

\* Lines 69-73: the two directory reads and the early return.
ReadDirectory(t) ==
    /\ pc[t] = "lookup"
    /\ \E l \in {Lookup(mph, frame[t].h)} :
       LET reads == {l.chunk, l.chunk + 1}
           f == [frame[t] EXCEPT !.chunk = l.chunk, !.directory_reads = reads]
       IN  IF Faults(mph.edge_offset_and_seed, reads)
           THEN /\ pc' = [pc EXCEPT ![t] = "fault"]
                /\ frame' = [frame EXCEPT ![t] = f]
           ELSE /\ pc' = [pc EXCEPT ![t] = IF l.num_variables = 0 THEN "return" ELSE "resolve"]
                /\ frame' = [frame EXCEPT ![t] =
                                [f EXCEPT !.edge_offset_seed = l.edge_offset_seed,
                                          !.chunk_offset = l.chunk_offset,
                                          !.num_variables = l.num_variables,
                                          !.result = MinusOne]]
    /\ UNCHANGED <<args, out, mph, ub, keys, stream, loaded>>

\* Lines 74-76: the triple, the label reads, the rank and the sum.
ReadLabels(t) ==
    /\ pc[t] = "resolve"
    /\ \E r \in {Resolve(mph, frame[t].h, frame[t])} :
       LET f == [frame[t] EXCEPT !.e = r.e, !.array_reads = r.reads]
       IN  IF Faults(mph.array, r.reads)
           THEN /\ pc' = [pc EXCEPT ![t] = "fault"]
                /\ frame' = [frame EXCEPT ![t] = f]
           ELSE /\ pc' = [pc EXCEPT ![t] = "return"]
                /\ frame' = [frame EXCEPT ![t] = [f EXCEPT !.result = r.result]]
    /\ UNCHANGED <<args, out, mph, ub, keys, stream, loaded>>

\* The call returns frame[t].result and its frame is gone.
Return(t) ==
    /\ pc[t] = "return"
    /\ pc' = [pc EXCEPT ![t] = "idle"]
    /\ frame' = [frame EXCEPT ![t] = NoFrame]
    /\ UNCHANGED <<args, out, mph, ub, keys, stream, loaded>>

\* ------------------------------------------------------------------------
\* load_mph
\* ------------------------------------------------------------------------

\* The most uint64_t words one calloc call grants.
AllocLimit == 4

\* The bytes of a sequence of words, each least significant byte first.
RECURSIVE BytesOf(_)
BytesOf(words) == IF words = <<>> THEN <<>> ELSE Limbs(Head(words)) \o BytesOf(Tail(words))

\* The words of a sequence of bytes.
WordsOf(bytes) == Eval([k \in 1..(Len(bytes) \div 8) |-> FromLimbs(SubSeq(bytes, 8 * k - 7, 8 * k))])

\* read(h, buf, sizeof buf) with the file at position p: the bytes the file
\* still has overwrite the start of buf, the rest of buf is left as it was.
\* What read returns is not looked at.
ReadAt(file, p, buf) == Eval([i \in 1..Len(buf) |-> IF p + i <= Len(file) THEN file[p + i] ELSE buf[i]])

\* Whether calloc(n, 8) returns memory rather than NULL.
Granted(n) == Fits31(n) /\ ToNat(n) <= AllocLimit

\* calloc(n, 8): n zeroed words as bytes, and no bytes for NULL.
calloc(n) == IF Granted(n) THEN Eval([i \in 1..(8 * ToNat(n)) |-> 0]) ELSE <<>>

\* Lines 9-21 on a file of these bytes: the structure and the position the
\* file is left at if it is long enough.  The fields start zeroed (calloc),
\* t starts as whatever the stack holds (garbage), each read lands where
\* the one before it stopped, and a read into NULL delivers nothing.
Load(file, garbage) ==
    LET length == FromLimbs(ReadAt(file, 24, calloc(FromNat(1))))
        directory == ReadAt(file, 32, calloc(length))
        q == 32 + Len(directory)
        array_length == FromLimbs(ReadAt(file, q, calloc(FromNat(1))))
        array == ReadAt(file, q + 8, calloc(array_length))
    IN  [mph |-> [size |-> FromLimbs(ReadAt(file, 0, calloc(FromNat(1)))),
                  chunk_shift |-> ToInt(FromLimbs(ReadAt(file, 8, Limbs(garbage)))),
                  global_seed |-> FromLimbs(ReadAt(file, 16, calloc(FromNat(1)))),
                  edge_offset_and_seed_length |-> length,
                  edge_offset_and_seed |-> WordsOf(directory),
                  array_length |-> array_length,
                  array |-> WordsOf(array)],
         position |-> q + 8 + Len(array)]

\* load_mph(h): lines 8-23.  It has no path that returns anything but mph.
load_mph ==
    /\ loaded = "none"
    /\ \E r \in {Load(stream, ub.word[1])} :
          /\ mph' = r.mph
          /\ stream' = SubSeq(stream, (IF r.position < Len(stream) THEN r.position ELSE Len(stream)) + 1,
                              Len(stream))
    /\ loaded' = "mph"
    /\ UNCHANGED <<args, out, ub, keys, pc, frame>>

\* ------------------------------------------------------------------------
\* Calls of the static functions on their own
\* ------------------------------------------------------------------------

\* Number of uint64_t words of the label arrays count_nonzero_pairs is
\* called on.
RankWords == 2

\* Label patterns 0..MaxPattern fill those arrays.
MaxPattern == 5

\* Offset fields are taken within Spread of 0, of the largest field whose
\* product by C_TIMES_256 fits 64 bits, and of the largest 56-bit field;
\* hash words within Spread shifts of the all-ones word.
Spread == 2

NoIndex ==
    [size |-> Zero64, chunk_shift |-> 0, global_seed |-> Zero64,
     edge_offset_and_seed_length |-> Zero64, edge_offset_and_seed |-> <<>>,
     array_length |-> Zero64, array |-> <<>>]

Mapped == [mapped |-> TRUE, word |-> <<Zero64, Zero64>>, wide |-> "wrap"]

\* The variables a specification does not use keep these values.
NoEvaluate == mph = NoIndex /\ ub = Mapped /\ keys = <<>> /\ pc = <<>> /\ frame = <<>>

NoLoad == stream = <<>> /\ loaded = "none"

NoCall == args = "none" /\ out = <<>>

\* Label p of pattern id: the constant labels 0..3, then mixed ones.
Pattern(id, p) == IF id < 4 THEN id ELSE ((p \div (id - 3)) + id) % 4

\* The word holding labels 32 * b .. 32 * b + 31 of pattern id.
PatternWord(id, b) ==
    Eval([i \in 1..WordBits |->
            LET l == Pattern(id, PairsPerWord * b + ((i - 1) \div 2))
            IN  IF i % 2 = 1 THEN l % 2 ELSE l \div 2])

PatternArray(id, n) == Eval([b \in 1..n |-> PatternWord(id, b - 1)])

\* Vertex indices at, next to and away from the word boundaries.
RankPositions == {p \in 0..(PairsPerWord * RankWords) : p % PairsPerWord \in {0, 1, 13, 31}}

InitRank ==
    /\ \E id \in 0..MaxPattern : \E a, b, c \in RankPositions :
          /\ a <= b /\ b <= c
          /\ args = [array |-> PatternArray(id, RankWords + 1), a |-> a, b |-> b, c |-> c]
    /\ out = <<>>
    /\ NoEvaluate /\ NoLoad

\* The three calls count_nonzero_pairs(a, b), (b, c) and (a, c), in this order.
RankRange(k) ==
    IF k = 1 THEN <<args.a, args.b>> ELSE IF k = 2 THEN <<args.b, args.c>> ELSE <<args.a, args.c>>

RankCall ==
    /\ Len(out) < 3
    /\ LET r == RankRange(Len(out) + 1)
       IN  out' = Append(out, count_nonzero_pairs(FromNat(r[1]), FromNat(r[2]), args.array))
    /\ UNCHANGED <<args, mph, ub, keys, pc, frame, stream, loaded>>

SpecRank == InitRank /\ [][RankCall]_vars

\* The largest offset field whose product by 281 is below 2^64:
\* 65646776063023315 = 0x00E939651FE2D8D3.
LargestExactField == FromLimbs(<<211, 216, 226, 31, 101, 57, 233, 0>>)

OffsetFields ==
    {FromNat(d) : d \in 0..Spread}
    \cup {Sub(LargestExactField, FromNat(d)) : d \in 0..Spread}
    \cup {Add(LargestExactField, FromNat(d)) : d \in 1..Spread}
    \cup {Sub(OFFSET_MASK, FromNat(d)) : d \in 0..Spread}

\* Seed bytes, in the high 8 bits of a directory entry.
SeedBytes == {Zero64, Shl(FromNat(1), 56), Shl(FromNat(255), 56)}

InitOffset ==
    /\ \E fa, fb \in OffsetFields : \E sa, sb \in SeedBytes :
          /\ LessEq(fa, fb)
          /\ args = [a |-> Or(fa, sa), b |-> Or(fb, sb)]
    /\ out = <<>>
    /\ NoEvaluate /\ NoLoad

\* vertex_offset of entry a, then of entry b.
OffsetCall ==
    /\ Len(out) < 2
    /\ out' = Append(out, vertex_offset(IF Len(out) = 0 THEN args.a ELSE args.b))
    /\ UNCHANGED <<args, mph, ub, keys, pc, frame, stream, loaded>>

SpecOffset == InitOffset /\ [][OffsetCall]_vars

\* Positive ints around the powers of two, up to INT_MAX.
NumVariablesMenu ==
    {1, IntMax, IntMax - 1}
    \cup UNION {{2^k - 1, 2^k, 2^k + 1} : k \in {1, 2, 3, 4, 8, 16, 30}}

\* Rehash inputs: runs of ones from the top and from the bottom, and
\* alternating bits.
HashWords ==
    {Zero64, EvenBits, Not(EvenBits)}
    \cup {Shr(AllOnes64, j) : j \in 0..Spread}
    \cup {Shl(AllOnes64, j) : j \in 1..Spread}

InitTriple ==
    /\ \E w \in HashWords : \E seed \in SeedBytes : \E n \in NumVariablesMenu :
          args = [triple |-> <<w, Shr(w, 7), Not(w), Zero64>>, seed |-> seed, num_variables |-> n]
    /\ out = <<>>
    /\ NoEvaluate /\ NoLoad

TripleCall ==
    /\ Len(out) < 1
    /\ out' = <<triple_to_equation(args.triple, args.seed, args.num_variables)>>
    /\ UNCHANGED <<args, mph, ub, keys, pc, frame, stream, loaded>>

SpecTriple == InitTriple /\ [][TripleCall]_vars

\* ------------------------------------------------------------------------
\* Indexes and keys, and evaluate on them
\* ------------------------------------------------------------------------

\* The largest number of keys (edges) of an index.
MaxEdges == 13

\* Cumulative key counts a directory entry may hold: none, a few (where the
\* vertex offset equals the key count) and many (where it exceeds it).
EdgeCounts == {0, 2, MaxEdges - 2, MaxEdges}

\* A directory entry: the offset in the low 56 bits, the seed byte above.
Entry(offset, seed_byte) == Or(FromNat(offset), Shl(FromNat(seed_byte), 56))

\* vertex_offset of a small offset, as an integer.
VertexOf(offset) == ToNat(vertex_offset(FromNat(offset)))

\* The label a construction gives vertex v, from the vertex offsets of the
\* directory entries: counts[c] vertices of chunk c (the first ones for
\* "low", the last ones for "high") get a non-zero label, every other
\* vertex 0; "ones" labels every vertex 1.
LabelAt(vertices, counts, place, v) ==
    LET cs == {c \in 1..(Len(vertices) - 1) : vertices[c] <= v /\ v < vertices[c + 1]}
    IN  IF place = "ones" THEN 1
        ELSE IF cs = {} THEN 0
        ELSE LET c == CHOOSE x \in cs : TRUE
                 r == v - vertices[c]
                 n == vertices[c + 1] - vertices[c]
             IN  IF \/ place = "low" /\ r < counts[c]
                    \/ place = "high" /\ r >= n - counts[c]
                 THEN 1 + (v % 3)
                 ELSE 0

\* The word whose 2-bit groups are the 32 labels in ls.
PackLabels(ls) ==
    Eval([i \in 1..WordBits |->
            IF i % 2 = 1 THEN ls[((i - 1) \div 2) + 1] % 2 ELSE ls[((i - 1) \div 2) + 1] \div 2])

LabelWordsAt(vertices, counts, place, words) ==
    Eval([b \in 1..words |->
            PackLabels(Eval([j \in 1..PairsPerWord |->
                LabelAt(vertices, counts, place, PairsPerWord * (b - 1) + j - 1)]))])

LabelWords(offsets, counts, place, words) ==
    LabelWordsAt(Eval([c \in 1..Len(offsets) |-> VertexOf(offsets[c])]), counts, place, words)

\* The seed bytes of a directory of n entries.
SeedsOf(variant, n) == Eval([c \in 1..n |-> IF variant = "plain" THEN 0 ELSE IF c % 2 = 1 THEN 255 ELSE 1])

\* The number of keys a directory states for each chunk.
StatedCounts(offsets) ==
    Eval([c \in 1..(Len(offsets) - 1) |->
            IF offsets[c + 1] >= offsets[c] THEN offsets[c + 1] - offsets[c] ELSE 0])

\* The mph structure with these fields.
Index(shift, offsets, variant, counts, place, words) ==
    [size |-> IF offsets = <<>> THEN Zero64 ELSE FromNat(offsets[Len(offsets)]),
     chunk_shift |-> shift,
     global_seed |-> IF variant = "plain" THEN Zero64 ELSE FromNat(5),
     edge_offset_and_seed_length |-> FromNat(Len(offsets)),
     edge_offset_and_seed |->
        Eval([c \in 1..Len(offsets) |-> Entry(offsets[c], SeedsOf(variant, Len(offsets))[c])]),
     array_length |-> FromNat(words),
     array |-> LabelWords(offsets, counts, place, words)]

\* Indexes with two chunks and a three-entry directory, whatever the order
\* of the offsets and the placement of the labels.
TwoChunkIndexes ==
    {Index(63, <<0, a, b>>, variant, StatedCounts(<<0, a, b>>), place, 1) :
        a \in EdgeCounts, b \in EdgeCounts, variant \in {"plain", "seeded"},
        place \in {"low", "high", "zero"}}

\* Indexes whose directory is shorter than two chunks need, with and without
\* labels.
ShortIndexes ==
    {Index(63, offsets, "plain", StatedCounts(offsets), "ones", words) :
        offsets \in {<<>>, <<0>>} \cup {<<0, a>> : a \in EdgeCounts}, words \in {0, 1}}

\* Indexes whose chunk_shift selects more chunks than the directory has, or
\* is no valid shift count.
ShiftedIndexes ==
    {Index(shift, offsets, "plain", StatedCounts(offsets), "low", 1) :
        shift \in {60, 64}, offsets \in {<<0, 2, 2>>, <<0, MaxEdges - 2, MaxEdges>>}}

\* What undefined behaviour may resolve to: reads outside an array find
\* these words or fault; a shift by 64 wraps the count or gives 0.
Resolutions ==
    {[mapped |-> TRUE, word |-> <<Zero64, Entry(3, 7)>>, wide |-> "wrap"],
     [mapped |-> TRUE, word |-> <<Entry(3, 7), AllOnes64>>, wide |-> "zero"],
     [mapped |-> FALSE, word |-> <<Zero64, Zero64>>, wide |-> "wrap"]}

\* Key material whose top bytes are a, b and c: the top bits of the first
\* word select the chunk, the bits below them in each word the vertices.
KeyOf(a, b, c) == <<Shl(FromNat(a), 56), Shl(FromNat(b), 56), Shl(FromNat(c), 56), Zero64>>

SomeKeys ==
    <<KeyOf(0, 0, 0), KeyOf(15, 15, 15), KeyOf(47, 0, 16),
      KeyOf(128, 0, 0), KeyOf(143, 15, 15), KeyOf(160, 32, 16)>>

InitEvaluate(callers, indexes, resolutions) ==
    /\ mph \in indexes
    /\ ub \in resolutions
    /\ keys = SomeKeys
    /\ pc = [t \in 1..callers |-> "idle"]
    /\ frame = [t \in 1..callers |-> NoFrame]
    /\ NoCall /\ NoLoad

Init == InitEvaluate(1, TwoChunkIndexes \cup ShortIndexes \cup ShiftedIndexes, Resolutions)

Next ==
    \/ \E t \in DOMAIN pc : get_byte_array(t)
    \/ \E t \in DOMAIN pc : get_uint64_t(t)
    \/ \E t \in DOMAIN pc : ReadDirectory(t)
    \/ \E t \in DOMAIN pc : ReadLabels(t)
    \/ \E t \in DOMAIN pc : Return(t)

Spec == Init /\ [][Next]_vars

\* Two callers on a few indexes.
InitThreads ==
    InitEvaluate(2,
        {Index(63, <<0, MaxEdges - 2, MaxEdges>>, "seeded", <<MaxEdges - 2, 2>>, "low", 1),
         Index(63, <<0, 2, 2>>, "plain", <<2, 0>>, "high", 1),
         Index(60, <<0, 2, 2>>, "plain", <<2, 0>>, "low", 1)},
        Resolutions)

SpecThreads == InitThreads /\ [][Next]_vars

\* ------------------------------------------------------------------------
\* A stub construction, and evaluate on every key of the built set
\* ------------------------------------------------------------------------

\* The vertices, relative to the chunk's first, that a chunk of n vertices
\* assigns to its k keys, in key order.
Assigned(n, k, place) == Eval([j \in 1..k |-> IF place = "low" THEN j - 1 ELSE n - j])

\* The edge of key j (from 1) of a chunk: its own vertex at place (j - 1) % 3
\* of the triple and the vertex of the key before it at the two others.
BuiltEdge(vs, j) ==
    Eval([i \in 1..3 |-> IF i - 1 = (j - 1) % 3 THEN vs[j] ELSE vs[IF j = 1 THEN 1 ELSE j - 1]])

\* The labels of the assigned vertices, in key order: the label of key j's
\* vertex makes the three labels of its edge sum to its place modulo 3.
RECURSIVE BuiltLabels(_, _)
BuiltLabels(k, acc) ==
    IF Len(acc) >= k THEN acc
    ELSE LET j == Len(acc) + 1
             others == IF j = 1 THEN 2 ELSE 2 * acc[j - 1]
         IN  BuiltLabels(k, Append(acc, CHOOSE l \in 1..3 : (l + others) % 3 = (j - 1) % 3))

\* The label of vertex v in an array built for these chunks ("ones" marks
\* every vertex 1 instead).
BuiltLabelAt(vertices, assigned, marking, v) ==
    LET cs == {c \in 1..(Len(vertices) - 1) : vertices[c] <= v /\ v < vertices[c + 1]}
    IN  IF marking = "ones" THEN 1
        ELSE IF cs = {} THEN 0
        ELSE LET c == CHOOSE x \in cs : TRUE
                 js == {j \in 1..Len(assigned[c]) : assigned[c][j] = v - vertices[c]}
             IN  IF js = {} THEN 0 ELSE BuiltLabels(Len(assigned[c]), <<>>)[CHOOSE j \in js : TRUE]

\* Key material that spooky_short and spooky_short_rehash take to chunk
\* `chunk` and to the edge e of a chunk of nv vertices: each rehash word is
\* the least one that the multiply-shift of triple_to_equation maps to its
\* vertex.
BuiltKey(chunk, entry, nv, e, global_seed) ==
    LET shift == EquationShift(nv)
        seed == And(entry, Not(OFFSET_MASK))
        h == Eval([i \in 1..3 |->
                     Xor(Shl(FromNat((e[i] * 256 + nv - 1) \div nv), shift - 8), Shr(seed, 8 * i))])
    IN  <<Xor(Or(h[1], Shl(FromNat(chunk), WordBits - 1)), global_seed),
          Xor(h[2], global_seed), Xor(h[3], global_seed), global_seed>>

RECURSIVE Flatten(_)
Flatten(ss) == IF ss = <<>> THEN <<>> ELSE Head(ss) \o Flatten(Tail(ss))

\* An index over Len(offsets) - 1 chunks with counts[c] keys in chunk c, and
\* those keys, the last chunk's first.
Built(offsets, variant, counts, place, marking) ==
    LET chunks == Len(offsets) - 1
        vertices == Eval([c \in 1..Len(offsets) |-> VertexOf(offsets[c])])
        assigned == Eval([c \in 1..chunks |->
                            Assigned(vertices[c + 1] - vertices[c], counts[c], place)])
        plain == Index(63, offsets, variant, counts, "zero", 1)
    IN  [mph |-> [plain EXCEPT !.array =
                    Eval([b \in 1..1 |->
                            PackLabels(Eval([j \in 1..PairsPerWord |->
                                BuiltLabelAt(vertices, assigned, marking, j - 1)]))])],
         keys |-> Flatten(Eval([d \in 1..chunks |->
                    LET c == chunks + 1 - d
                    IN  Eval([j \in 1..counts[c] |->
                                BuiltKey(c - 1, plain.edge_offset_and_seed[c],
                                         vertices[c + 1] - vertices[c],
                                         BuiltEdge(assigned[c], j), plain.global_seed)])]))]

\* Whether chunks of these key counts fit the vertices the directory gives
\* them.
Feasible(offsets, counts) ==
    \A c \in 1..Len(counts) :
        counts[c] >= 0 /\ counts[c] <= VertexOf(offsets[c + 1]) - VertexOf(offsets[c])

\* One and two chunks; the key counts of the chunks are those the directory
\* states, or one key more or less in the first chunk.
BuiltSets ==
    {Built(<<0, a>>, variant, <<a>>, place, "built") :
        a \in EdgeCounts, variant \in {"plain", "seeded"}, place \in {"low", "high"}}
    \cup {Built(x.offsets, variant, x.counts, place, marking) :
            x \in {y \in [offsets : {<<0, a, b>> : a \in EdgeCounts, b \in EdgeCounts},
                          counts : {<<j, k>> : j \in 0..(MaxEdges + 1), k \in 0..(MaxEdges + 1)}] :
                      /\ y.offsets[2] <= y.offsets[3]
                      /\ y.counts[1] + y.counts[2] = y.offsets[3]
                      /\ y.counts[1] - y.offsets[2] \in {-1, 0, 1}
                      /\ Feasible(y.offsets, y.counts)},
            variant \in {"plain", "seeded"}, place \in {"low", "high"},
            marking \in {"built", "ones"}}

InitBuilt ==
    /\ \E b \in BuiltSets : mph = b.mph /\ keys = b.keys
    /\ ub = Mapped
    /\ pc = <<"idle">>
    /\ frame = <<NoFrame>>
    /\ args = "none" /\ out = <<>>
    /\ NoLoad

\* The caller evaluates the keys of the built set one after the other.
NextKey(t, fn) == Len(out) < Len(keys) /\ Enter(t, Len(out) + 1, fn)

\* The call returns and the caller keeps what it returned.
Collect(t) ==
    /\ pc[t] = "return"
    /\ pc' = [pc EXCEPT ![t] = "idle"]
    /\ frame' = [frame EXCEPT ![t] = NoFrame]
    /\ out' = Append(out, frame[t].result)
    /\ UNCHANGED <<args, mph, ub, keys, stream, loaded>>

NextBuilt ==
    \/ \E t \in DOMAIN pc : NextKey(t, "get_byte_array")
    \/ \E t \in DOMAIN pc : NextKey(t, "get_uint64_t")
    \/ \E t \in DOMAIN pc : ReadDirectory(t)
    \/ \E t \in DOMAIN pc : ReadLabels(t)
    \/ \E t \in DOMAIN pc : Collect(t)

SpecBuilt == InitBuilt /\ [][NextBuilt]_vars

\* The file load_mph reads back as m.
Serialise(m) ==
    BytesOf(<<m.size, FromInt(m.chunk_shift), m.global_seed, m.edge_offset_and_seed_length>>
            \o m.edge_offset_and_seed \o <<m.array_length>> \o m.array)

\* Whole files: two indexes, and one whose declared directory length no
\* calloc can grant.
WholeFiles ==
    {Serialise(Index(63, <<0, MaxEdges - 2, MaxEdges>>, "seeded", <<MaxEdges - 2, 2>>, "low", 1)),
     Serialise(Index(60, <<0, 2>>, "plain", <<2>>, "high", 2)),
     Serialise([Index(63, <<0, 2>>, "plain", <<2>>, "low", 1)
                    EXCEPT !.edge_offset_and_seed_length = AllOnes64])}

\* A stream is a whole file or one cut short after any number of bytes.
InitLoad ==
    /\ \E file \in WholeFiles : \E n \in 0..Len(file) :
          /\ args = [h |-> SubSeq(file, 1, n)]
          /\ stream = SubSeq(file, 1, n)
    /\ ub \in Resolutions
    /\ loaded = "none"
    /\ out = <<>>
    /\ mph = NoIndex /\ keys = <<>> /\ pc = <<>> /\ frame = <<>>

SpecLoad == InitLoad /\ [][load_mph]_vars

\* ------------------------------------------------------------------------
\* Properties of evaluate
\* ------------------------------------------------------------------------

\* The offset field of directory entry c (from 1), as an integer.
OffsetField(m, c) == ToNat(And(m.edge_offset_and_seed[c], OFFSET_MASK))

\* The vertices of chunk c (from 1) whose label get_2bit_value reads as
\* non-zero.
NonzeroInChunk(m, c) ==
    NonzeroLabels(m.array, VertexOf(OffsetField(m, c)), VertexOf(OffsetField(m, c + 1)))

\* The invariants of the data model: the directory has an entry for every
\* chunk a key can hash into and one more, its offsets start at 0, do not
\* decrease and end at size, the label array holds every vertex, and each
\* chunk has as many non-zero labels as the directory states keys for it.
DataModelInvariant(m) ==
    /\ m.chunk_shift \in 34..63
    /\ \E n \in {2^(WordBits - m.chunk_shift)} :
          /\ Len(m.edge_offset_and_seed) >= n + 1
          /\ \A c \in 1..(n + 1) : Fits31(And(m.edge_offset_and_seed[c], OFFSET_MASK))
          /\ OffsetField(m, 1) = 0
          /\ FromNat(OffsetField(m, n + 1)) = m.size
          /\ \A c \in 1..n : OffsetField(m, c) <= OffsetField(m, c + 1)
          /\ VertexOf(OffsetField(m, n + 1)) <= PairsPerWord * Len(m.array)
          /\ \A c \in 1..n :
                Cardinality(NonzeroInChunk(m, c)) = OffsetField(m, c + 1) - OffsetField(m, c)

\* C2: on an index that satisfies the data-model invariants, evaluate
\* returns -1 or a value below key_count, for any key.
EvaluateInRange ==
    \A t \in DOMAIN pc :
        (pc[t] = "return" /\ DataModelInvariant(mph)) =>
            (frame[t].result = MinusOne \/ Less(frame[t].result, mph.size))

\* C3: when the two directory entries of the key's chunk have the same
\* vertex_offset, evaluate returns -1, whatever the key and the seed bytes,
\* without having derived the triple or read a label.
EmptyChunkReturnsMinusOne ==
    \A t \in DOMAIN pc :
        (/\ pc[t] \in {"resolve", "return"}
         /\ vertex_offset(Deref(mph.edge_offset_and_seed, frame[t].chunk + 1))
                = vertex_offset(Deref(mph.edge_offset_and_seed, frame[t].chunk)))
        => (/\ pc[t] = "return"
            /\ frame[t].result = MinusOne
            /\ frame[t].e = <<>>
            /\ frame[t].array_reads = {})

\* A call has returned -1 for a key of non-zero material whose chunk lies
\* between two directory entries of equal non-zero offset and different seed
\* bytes.
EmptyChunkWitness ==
    \E t \in DOMAIN pc :
        /\ pc[t] = "return"
        /\ frame[t].result = MinusOne
        /\ frame[t].h[2] # Zero64
        /\ frame[t].chunk = 1
        /\ Len(mph.edge_offset_and_seed) = 3
        /\ OffsetField(mph, 2) = OffsetField(mph, 3)
        /\ OffsetField(mph, 2) > 0
        /\ mph.edge_offset_and_seed[2] # mph.edge_offset_and_seed[3]

\* C7: every directory read of evaluate is at an index below the directory
\* length and every label-word read at an index below the label array's
\* length, whatever the index holds.
ReadsInBounds ==
    \A t \in DOMAIN pc :
        /\ \A i \in frame[t].directory_reads : InBounds(mph.edge_offset_and_seed, i)
        /\ \A i \in frame[t].array_reads : InBounds(mph.array, i)

\* The outcome of evaluate on key material key, run from start to end with
\* no other call under way.
Alone(m, key) ==
    LET h == spooky_short(key, m.global_seed)
        l == Lookup(m, h)
    IN  IF Faults(m.edge_offset_and_seed, {l.chunk, l.chunk + 1}) THEN "fault"
        ELSE IF l.num_variables = 0 THEN MinusOne
        ELSE LET r == Resolve(m, h, l)
             IN  IF Faults(m.array, r.reads) THEN "fault" ELSE r.result

\* What a caller that has finished got.
Outcome(t) == IF pc[t] = "fault" THEN "fault" ELSE frame[t].result

ReturnsAsAlone ==
    \A t \in DOMAIN pc :
        pc[t] \in {"return", "fault"} =>
            \A alone \in {Alone(mph, keys[frame[t].key])} : Outcome(t) = alone

SameKeySameResult ==
    \A t, u \in DOMAIN pc :
        (pc[t] \in {"return", "fault"} /\ pc[u] \in {"return", "fault"}
         /\ keys[frame[t].key] = keys[frame[u].key])
        => Outcome(t) = Outcome(u)

\* C8: evaluate calls, however interleaved, leave every field of the index
\* unchanged, each returns what the same key returns evaluated alone, and
\* two evaluations of one key return the same.
EvaluateReadOnly == [](ReturnsAsAlone /\ SameKeySameResult) /\ [][mph' = mph]_vars

\* Two callers have finished calls on different keys of one chunk, entered
\* through the two entry points, both past the early return.
ThreadsWitness ==
    /\ DOMAIN pc = {1, 2}
    /\ pc[1] = "return" /\ pc[2] = "return"
    /\ frame[1].fn = "get_byte_array" /\ frame[2].fn = "get_uint64_t"
    /\ frame[1].key # frame[2].key
    /\ frame[1].chunk = frame[2].chunk
    /\ frame[1].array_reads # {} /\ frame[2].array_reads # {}
    /\ frame[1].result # frame[2].result

\* ------------------------------------------------------------------------
\* Properties of evaluate on a built set
\* ------------------------------------------------------------------------

\* The chunk (from 1) a key hashes into and the vertex the sum of the three
\* labels of its edge modulo 3 selects; vertex -1 in a chunk of no vertices.
Selected(m, key) ==
    LET h == spooky_short(key, m.global_seed)
        c == ToInt(Shr(h[1], m.chunk_shift)) + 1
        first == VertexOf(OffsetField(m, c))
        n == VertexOf(OffsetField(m, c + 1)) - first
        e == triple_to_equation(h, And(m.edge_offset_and_seed[c], Not(OFFSET_MASK)), n)
        sum == get_2bit_value(m.array, FromNat(first + e[1]))
               + get_2bit_value(m.array, FromNat(first + e[2]))
               + get_2bit_value(m.array, FromNat(first + e[3]))
    IN  [chunk |-> c, vertex |-> IF n <= 0 THEN -1 ELSE first + e[(sum % 3) + 1]]

SelectedAll(m, ks) == Eval([k \in 1..Len(ks) |-> Selected(m, ks[k])])

\* The construction invariant, given what each key selects: within each
\* chunk the keys select pairwise distinct vertices, every selected vertex
\* has a non-zero label, the non-zero labels of the chunk's vertex range are
\* exactly the selected vertices, the first directory offset is 0 and the
\* last is key_count.
ConstructionInvariant(m, sel) ==
    LET chunks == Len(m.edge_offset_and_seed) - 1
    IN  /\ chunks >= 1
        /\ \A j, k \in 1..Len(sel) : (j # k /\ sel[j].chunk = sel[k].chunk) => sel[j].vertex # sel[k].vertex
        /\ \A k \in 1..Len(sel) :
              sel[k].vertex >= 0 /\ get_2bit_value(m.array, FromNat(sel[k].vertex)) # 0
        /\ \A c \in 1..chunks :
              NonzeroInChunk(m, c) = {sel[k].vertex : k \in {j \in 1..Len(sel) : sel[j].chunk = c}}
        /\ OffsetField(m, 1) = 0
        /\ OffsetField(m, chunks + 1) = Len(sel)
        /\ m.size = FromNat(Len(sel))

\* Each chunk has as many keys as its two directory offsets are apart.
ChunkCountsMatch(m, sel) ==
    \A c \in 1..(Len(m.edge_offset_and_seed) - 1) :
        Cardinality({k \in 1..Len(sel) : sel[k].chunk = c}) = OffsetField(m, c + 1) - OffsetField(m, c)

\* Whether the values in results are 0 .. n - 1, each once.
IsPermutation(results, n) ==
    /\ Len(results) = n
    /\ {results[k] : k \in 1..n} = {FromNat(i) : i \in 0..(n - 1)}

\* C1 as stated: on an index that satisfies the construction invariant,
\* evaluate on every key of the built set yields a permutation of
\* [0, key_count).
RoundTripPermutation ==
    (Len(out) = Len(keys) /\ pc[1] = "idle") =>
        \A sel \in {SelectedAll(mph, keys)} :
            ConstructionInvariant(mph, sel) => IsPermutation(out, Len(keys))

\* C1 amended: on an index that satisfies the construction invariant and in
\* which each chunk's key count is the difference of its two directory
\* offsets, evaluate on every key of the built set yields a permutation of
\* [0, key_count).
RoundTripPermutationOfCountedChunks ==
    (Len(out) = Len(keys) /\ pc[1] = "idle") =>
        \A sel \in {SelectedAll(mph, keys)} :
            (ConstructionInvariant(mph, sel) /\ ChunkCountsMatch(mph, sel))
            => IsPermutation(out, Len(keys))

\* Every key of a set of MaxEdges keys in two seeded chunks has been
\* evaluated, the index satisfies both conditions, and the first key did
\* not get ordinal 0.
RoundTripWitness ==
    /\ Len(keys) = MaxEdges
    /\ Len(out) = Len(keys) /\ pc[1] = "idle"
    /\ mph.global_seed # Zero64
    /\ out[1] # Zero64
    /\ \E sel \in {SelectedAll(mph, keys)} :
          /\ ConstructionInvariant(mph, sel) /\ ChunkCountsMatch(mph, sel)
          /\ {sel[k].chunk : k \in 1..Len(sel)} = {1, 2}
          /\ \E k \in 1..Len(sel) : sel[k].vertex > MaxEdges - 1

\* ------------------------------------------------------------------------
\* Properties of load_mph
\* ------------------------------------------------------------------------

\* Whether the file ends before a field or an array it declares.
Truncated(file) ==
    \/ Len(file) < 32
    \/ LET length == FromLimbs(SubSeq(file, 25, 32))
       IN  \/ ~Fits31(length)
           \/ Len(file) < 40 + 8 * ToNat(length)
           \/ LET q == 32 + 8 * ToNat(length)
                  array_length == FromLimbs(SubSeq(file, q + 1, q + 8))
              IN  ~Fits31(array_length) \/ Len(file) < q + 8 + 8 * ToNat(array_length)

\* C6: load on a stream that ends before a declared field or array has been
\* fully read returns no index.
LoadRejectsTruncated == Truncated(args.h) => loaded = "none"

\* ------------------------------------------------------------------------
\* Properties of the static functions
\* ------------------------------------------------------------------------

\* C4: every call count_nonzero_pairs(start, end, array) with start <= end
\* inside the array returns the number of positions of [start, end) whose
\* 2-bit label, as get_2bit_value reads it, is not 0.
RankCountsNonzeroLabels ==
    \A k \in 1..Len(out) :
        out[k] = Cardinality(NonzeroLabels(args.array, RankRange(k)[1], RankRange(k)[2]))

\* A range that starts inside one word and ends inside a later one, holding
\* both zero and non-zero labels, has been counted.
RankWitness ==
    /\ Len(out) = 3
    /\ args.a % PairsPerWord # 0 /\ args.c % PairsPerWord # 0
    /\ args.c \div PairsPerWord > args.a \div PairsPerWord
    /\ out[3] > 0 /\ out[3] < args.c - args.a

\* C5: count_nonzero_pairs(a, b) + count_nonzero_pairs(b, c) equals
\* count_nonzero_pairs(a, c) for every a <= b <= c.
RankAdditive == Len(out) = 3 => out[1] + out[2] = out[3]

\* Three calls with a, b and c in three different places, a inside a word
\* and both parts non-empty.
RankAdditiveWitness ==
    /\ Len(out) = 3
    /\ args.a % PairsPerWord # 0
    /\ args.a \div PairsPerWord < args.b \div PairsPerWord
    /\ args.b < args.c
    /\ out[1] > 0 /\ out[2] > 0

\* The product of the entry's offset field by C_TIMES_256 fits 64 bits.
ExactOffset(entry) == ~MulOverflows(And(entry, OFFSET_MASK), FromInt(C_TIMES_256))

\* C9: for two entries whose offset fields satisfy a <= b (any seed bytes),
\* vertex_offset(entry_a) <= vertex_offset(entry_b).
OffsetMonotone == Len(out) = 2 => LessEq(out[1], out[2])

\* Where the product of line 58 is exact the order is kept: the wrap-around
\* of the product is the only way vertex_offset loses it.
OffsetMonotoneWhenExact == (Len(out) = 2 /\ ExactOffset(args.b)) => LessEq(out[1], out[2])

\* The number of significant bits of a positive int.
BitLength(n) == CHOOSE b \in 1..31 : n \div 2^(b - 1) = 1

\* C10: for num_variables >= 1, shift is 64 - bit_length(num_variables), the
\* product (word & mask) * num_variables fits 64 bits for each of the three
\* rehash words, and each vertex triple_to_equation produces is in
\* [0, num_variables).
TripleInRange ==
    Len(out) = 1 =>
        LET n == args.num_variables
            hash == spooky_short_rehash(args.triple, args.seed)
        IN  /\ EquationShift(n) = WordBits - BitLength(n)
            /\ \A i \in 1..3 :
                  /\ ~MulOverflows(And(hash[i], EquationMask(n)), FromInt(n))
                  /\ out[1][i] >= 0
                  /\ out[1][i] < n

\* The largest int, with a word whose masked part is all ones, gave the
\* largest vertex.
TripleWitness ==
    /\ Len(out) = 1
    /\ args.num_variables = IntMax
    /\ out[1][1] = IntMax - 1
    /\ out[1][3] = 0

====
